---- MODULE Spec2Model ----
(***************************************************************************)
(* Model of RPCLoadBalancer (src/rpc-balancer.ts, the second, current      *)
(* version held in src/unnamed/part_003 from line 193 on): the endpoint    *)
(* registry, the failure tracker, the five selection strategies, the       *)
(* health check cycle and the instrumented client proxy.                   *)
(*                                                                         *)
(* JavaScript runs every synchronous stretch of code to completion, so one *)
(* action is one stretch between two awaits.  Date.now() is the variable   *)
(* now; it does not move inside an action.  Numbers that are fractions in  *)
(* the code (weights, response times) are exact rationals <<num, den>>.    *)
(***************************************************************************)
EXTENDS Integers, Sequences, FiniteSets, Bags, TLC

(* ------------------------------ bounds --------------------------------- *)
\* endpoints the environment configures (ENDPPOINT, ENDPPOINT1)
NumEndpoints == 2
\* calls through handles that may be awaiting their transport at once
MaxInFlight == 1
\* requests (recorded outcomes and calls in flight) in one behaviour of
\* Spec, and in one behaviour of SpecBackoff
MaxRequests == 1
MaxBackoffRequests == 3
\* requests made through the handle of the first endpoint in one behaviour
\* of SpecFailures
MaxFailureRequests == 4
\* the same in one behaviour of SpecOutage
MaxOutageRequests == 11
\* selections counted in one behaviour of SpecWRR, and selections made
\* before the counting starts
MaxSelections == 400
MaxWarmUp == 3
\* characters in the value of one ENDPPOINT variable, and ENDPPOINT variables,
\* in the configurations of SpecConfig
MaxDescriptorLen == 3
MaxEnvKeys == 1
\* calls that may be awaiting their transport at once in SpecConcurrent, and
\* requests in one of its behaviours
MaxConcurrent == 2
MaxConcurrentRequests == 3
\* ENDPPOINT variables, and characters in the value of one, in the
\* configurations of SpecSharedUrl
MaxSharedKeys == 2
MaxSharedLen == 1
\* selections counted in one behaviour of SpecRoundRobin
MaxRoundRobinSelections == 5
\* rounds of its loop one call of createBalancedSuiClient is followed through
MaxBlockingRetries == 2
\* health check timer periods the clock runs through
MaxIntervals == 1
\* runs of performHealthChecks that may be awaiting probes when the clock
\* reaches the next timer deadline
MaxCycles == 0
\* Date.now() when the balancer is constructed
T0 == 100000

(* ------------------------ program constants ---------------------------- *)
maxFailures == 3
baseBackoffDelay == 1000
maxBackoffDelay == 300000
backoffMultiplier == 2
healthCheckInterval == 60000
maxConsecutiveFailures == 5
recoveryThreshold == 3
\* the wait between two attempts of createBalancedSuiClient
retryInterval == 5000
\* failureWeightPenalty = 0.5, minEffectiveWeight = 0.1, alpha = 0.1,
\* and the clamp 0.1 .. 5.0 of adjustEffectiveWeight
failureWeightPenalty == <<1, 2>>
minEffectiveWeight == <<1, 10>>
weightFloor == <<1, 10>>
weightCeiling == <<5, 1>>
alpha == <<1, 10>>

Strategies ==
    {"round_robin", "weighted_round_robin", "least_connections",
     "response_time", "random"}

\* the methods the proxy instruments
asyncMethods ==
    {"getBalance", "getCoins", "getObject", "getObjects",
     "executeTransactionBlock", "dryRunTransactionBlock",
     "multiGetObjects", "queryTransactionBlocks",
     "getTransactionBlock", "getAllBalances", "getLatestSuiSystemState"}

isAsyncMethod(methodName) == methodName \in asyncMethods

\* the methods the callers of this repository invoke on a handle: one the
\* proxy instruments, one (used by the OnChainCalls collaborator) it does not
Methods == {"getAllBalances", "signAndExecuteTransactionBlock"}

EP == 1..NumEndpoints
NoEndpoint == 0
\* the values of ENDPPOINT, ENDPPOINT1, ..
Urls == [e \in EP |-> <<"u", e>>]

(* ---------------------------- rationals -------------------------------- *)
Abs(n) == IF n < 0 THEN -n ELSE n

RECURSIVE GCD(_, _)
GCD(a, b) == IF b = 0 THEN a ELSE GCD(b, a % b)

Norm(n, d) ==
    LET g == GCD(Abs(n), d) IN <<n \div g, d \div g>>

RInt(i) == <<i, 1>>
RAdd(x, y) == Norm(x[1] * y[2] + y[1] * x[2], x[2] * y[2])
RSub(x, y) == Norm(x[1] * y[2] - y[1] * x[2], x[2] * y[2])
RMul(x, y) == Norm(x[1] * y[1], x[2] * y[2])
RLt(x, y) == x[1] * y[2] < y[1] * x[2]
RMax(x, y) == IF RLt(x, y) THEN y ELSE x
RMin(x, y) == IF RLt(y, x) THEN y ELSE x
Min(a, b) == IF a < b THEN a ELSE b

(* ------------------------- endpoint registry --------------------------- *)
\* the record loadEndpointsFromEnv pushes.  lastFailureTime is undefined,
\* which the code tests by truthiness: 0.  lastSuccessTime, written on every
\* success and read only for the display of getStatus, is left out
NewEndpoint(u) ==
    [url |-> u,
     isActive |-> TRUE,
     failureCount |-> 0,
     lastFailureTime |-> 0,
     backoffDelay |-> baseBackoffDelay,
     weight |-> RInt(1),
     currentWeight |-> RInt(1),
     effectiveWeight |-> RInt(1),
     responseTime |-> RInt(0),
     successCount |-> 0,
     totalRequests |-> 0,
     isHealthy |-> TRUE,
     consecutiveFailures |-> 0,
     consecutiveSuccesses |-> 0]

(* --------------------------- failure tracker --------------------------- *)
\* adjustEffectiveWeight without Math.max and Math.min
adjustEffectiveWeight_Unclamped(ep, isSuccess) ==
    IF isSuccess
    THEN LET successRate ==
                 IF ep.totalRequests > 0
                 THEN Norm(ep.successCount, ep.totalRequests)
                 ELSE RInt(0)
             newWeight == RAdd(RInt(1), RMul(successRate, RInt(2)))
         IN [ep EXCEPT !.weight = newWeight, !.effectiveWeight = newWeight]
    ELSE [ep EXCEPT !.effectiveWeight = RMul(@, failureWeightPenalty)]

adjustEffectiveWeight(ep, isSuccess) ==
    IF isSuccess
    THEN LET successRate ==
                 IF ep.totalRequests > 0
                 THEN Norm(ep.successCount, ep.totalRequests)
                 ELSE RInt(0)
             newWeight ==
                 RMax(weightFloor,
                      RMin(weightCeiling,
                           RAdd(RInt(1), RMul(successRate, RInt(2)))))
         IN [ep EXCEPT !.weight = newWeight, !.effectiveWeight = newWeight]
    ELSE [ep EXCEPT !.effectiveWeight =
                        RMax(minEffectiveWeight,
                             RMul(@, failureWeightPenalty))]

\* markEndpointFailure with > in place of >= in both threshold tests
markEndpointFailure_LateDeactivation(ep, t) ==
    LET counted ==
            [ep EXCEPT !.failureCount = @ + 1,
                       !.consecutiveFailures = @ + 1,
                       !.consecutiveSuccesses = 0,
                       !.lastFailureTime = t,
                       !.totalRequests = @ + 1]
        adjusted == adjustEffectiveWeight(counted, FALSE)
    IN IF \/ adjusted.failureCount > maxFailures
          \/ adjusted.consecutiveFailures > maxConsecutiveFailures
       THEN [adjusted EXCEPT !.isActive = FALSE,
                             !.isHealthy = FALSE,
                             !.backoffDelay =
                                 Min(@ * backoffMultiplier, maxBackoffDelay)]
       ELSE adjusted

\* markEndpointFailure without its totalRequests++
markEndpointFailure_Uncounted(ep, t) ==
    LET counted ==
            [ep EXCEPT !.failureCount = @ + 1,
                       !.consecutiveFailures = @ + 1,
                       !.consecutiveSuccesses = 0,
                       !.lastFailureTime = t]
        adjusted == adjustEffectiveWeight(counted, FALSE)
    IN IF \/ adjusted.failureCount >= maxFailures
          \/ adjusted.consecutiveFailures >= maxConsecutiveFailures
       THEN [adjusted EXCEPT !.isActive = FALSE,
                             !.isHealthy = FALSE,
                             !.backoffDelay =
                                 Min(@ * backoffMultiplier, maxBackoffDelay)]
       ELSE adjusted

\* markEndpointFailure without the cap of Math.min on the doubled delay
markEndpointFailure_Uncapped(ep, t) ==
    LET counted ==
            [ep EXCEPT !.failureCount = @ + 1,
                       !.consecutiveFailures = @ + 1,
                       !.consecutiveSuccesses = 0,
                       !.lastFailureTime = t,
                       !.totalRequests = @ + 1]
        adjusted == adjustEffectiveWeight(counted, FALSE)
    IN IF \/ adjusted.failureCount >= maxFailures
          \/ adjusted.consecutiveFailures >= maxConsecutiveFailures
       THEN [adjusted EXCEPT !.isActive = FALSE,
                             !.isHealthy = FALSE,
                             !.backoffDelay = @ * backoffMultiplier]
       ELSE adjusted

markEndpointFailure(ep, t) ==
    LET counted ==
            [ep EXCEPT !.failureCount = @ + 1,
                       !.consecutiveFailures = @ + 1,
                       !.consecutiveSuccesses = 0,
                       !.lastFailureTime = t,
                       !.totalRequests = @ + 1]
        adjusted == adjustEffectiveWeight(counted, FALSE)
    IN IF \/ adjusted.failureCount >= maxFailures
          \/ adjusted.consecutiveFailures >= maxConsecutiveFailures
       THEN [adjusted EXCEPT !.isActive = FALSE,
                             !.isHealthy = FALSE,
                             !.backoffDelay =
                                 Min(@ * backoffMultiplier, maxBackoffDelay)]
       ELSE adjusted

\* markEndpointSuccess that forgives a failure at the first success
markEndpointSuccess_ForgivingAtOnce(ep, responseTime, t) ==
    LET counted ==
            [ep EXCEPT !.totalRequests = @ + 1,
                       !.successCount = @ + 1,
                       !.consecutiveSuccesses = @ + 1,
                       !.consecutiveFailures = 0,
                       !.responseTime =
                           IF @ = RInt(0)
                           THEN RInt(responseTime)
                           ELSE RAdd(RMul(alpha, RInt(responseTime)),
                                     RMul(RSub(RInt(1), alpha), @))]
        adjusted == adjustEffectiveWeight(counted, TRUE)
    IN IF adjusted.failureCount > 0
       THEN [adjusted EXCEPT !.failureCount = @ - 1]
       ELSE adjusted

\* markEndpointSuccess that adjusts the weights before it counts the request
markEndpointSuccess_AdjustingFirst(ep, responseTime, t) ==
    LET adjusted == adjustEffectiveWeight(ep, TRUE)
        counted ==
            [adjusted EXCEPT
                 !.totalRequests = @ + 1,
                 !.successCount = @ + 1,
                 !.consecutiveSuccesses = @ + 1,
                 !.consecutiveFailures = 0,
                 !.responseTime =
                     IF @ = RInt(0)
                     THEN RInt(responseTime)
                     ELSE RAdd(RMul(alpha, RInt(responseTime)),
                               RMul(RSub(RInt(1), alpha), @))]
    IN IF /\ counted.failureCount > 0
          /\ counted.consecutiveSuccesses >= recoveryThreshold
       THEN [counted EXCEPT !.failureCount =
                                IF @ - 1 > 0 THEN @ - 1 ELSE 0]
       ELSE counted

\* markEndpointSuccess that leaves consecutiveFailures as it is
markEndpointSuccess_KeepingFailureRun(ep, responseTime, t) ==
    LET counted ==
            [ep EXCEPT !.totalRequests = @ + 1,
                       !.successCount = @ + 1,
                       !.consecutiveSuccesses = @ + 1,
                       !.responseTime =
                           IF @ = RInt(0)
                           THEN RInt(responseTime)
                           ELSE RAdd(RMul(alpha, RInt(responseTime)),
                                     RMul(RSub(RInt(1), alpha), @))]
        adjusted == adjustEffectiveWeight(counted, TRUE)
    IN IF /\ adjusted.failureCount > 0
          /\ adjusted.consecutiveSuccesses >= recoveryThreshold
       THEN [adjusted EXCEPT !.failureCount =
                                 IF @ - 1 > 0 THEN @ - 1 ELSE 0]
       ELSE adjusted

markEndpointSuccess(ep, responseTime, t) ==
    LET counted ==
            [ep EXCEPT !.totalRequests = @ + 1,
                       !.successCount = @ + 1,
                       !.consecutiveSuccesses = @ + 1,
                       !.consecutiveFailures = 0,
                       !.responseTime =
                           IF @ = RInt(0)
                           THEN RInt(responseTime)
                           ELSE RAdd(RMul(alpha, RInt(responseTime)),
                                     RMul(RSub(RInt(1), alpha), @))]
        adjusted == adjustEffectiveWeight(counted, TRUE)
    IN IF /\ adjusted.failureCount > 0
          /\ adjusted.consecutiveSuccesses >= recoveryThreshold
       THEN [adjusted EXCEPT !.failureCount =
                                 IF @ - 1 > 0 THEN @ - 1 ELSE 0]
       ELSE adjusted

(* ------------------------------ recovery ------------------------------- *)
\* RecoverOne without the test of the time since the failure
RecoverOne_WithoutWaiting(ep, t) ==
    IF ~ep.isActive /\ ep.lastFailureTime # 0
    THEN [ep EXCEPT !.isActive = TRUE,
                    !.failureCount = 0,
                    !.backoffDelay = baseBackoffDelay,
                    !.currentWeight = ep.effectiveWeight,
                    !.consecutiveFailures = 0]
    ELSE ep

\* RecoverOne without the reset of backoffDelay
RecoverOne_KeepingDelay(ep, t) ==
    IF /\ ~ep.isActive
       /\ ep.lastFailureTime # 0
       /\ t - ep.lastFailureTime >= ep.backoffDelay
    THEN [ep EXCEPT !.isActive = TRUE,
                    !.failureCount = 0,
                    !.currentWeight = ep.effectiveWeight,
                    !.consecutiveFailures = 0]
    ELSE ep

\* RecoverOne without the reset of consecutiveFailures
RecoverOne_KeepingFailureRun(ep, t) ==
    IF /\ ~ep.isActive
       /\ ep.lastFailureTime # 0
       /\ t - ep.lastFailureTime >= ep.backoffDelay
    THEN [ep EXCEPT !.isActive = TRUE,
                    !.failureCount = 0,
                    !.backoffDelay = baseBackoffDelay,
                    !.currentWeight = ep.effectiveWeight]
    ELSE ep

\* the body of the loop of checkEndpointRecovery
RecoverOne(ep, t) ==
    IF /\ ~ep.isActive
       /\ ep.lastFailureTime # 0
       /\ t - ep.lastFailureTime >= ep.backoffDelay
    THEN [ep EXCEPT !.isActive = TRUE,
                    !.failureCount = 0,
                    !.backoffDelay = baseBackoffDelay,
                    !.currentWeight = ep.effectiveWeight,
                    !.consecutiveFailures = 0]
    ELSE ep

\* checkEndpointRecovery that reactivates nothing
checkEndpointRecovery_Never(eps, t) == eps

checkEndpointRecovery(eps, t) == [e \in EP |-> RecoverOne(eps[e], t)]

(* ------------------------- selection strategies ------------------------ *)
\* the filter without its test of isHealthy
activeEndpoints_IgnoringHealth(eps) ==
    SelectSeq([i \in 1..NumEndpoints |-> i], LAMBDA e : eps[e].isActive)

\* this.endpoints.filter(ep => ep.isActive && ep.isHealthy), as the
\* sequence of registry positions kept by the filter
activeEndpoints(eps) ==
    SelectSeq([i \in 1..NumEndpoints |-> i],
              LAMBDA e : eps[e].isActive /\ eps[e].isHealthy)

\* roundRobin that leaves this.currentIndex where it is
roundRobin_NotAdvancing(eps, idx, act) ==
    [sel |-> act[(idx % Len(act)) + 1],
     eps |-> eps,
     idx |-> idx]

\* a strategy returns [sel, eps, idx]: the endpoint selected, the registry
\* and this.currentIndex as the strategy leaves them
roundRobin(eps, idx, act) ==
    [sel |-> act[(idx % Len(act)) + 1],
     eps |-> eps,
     idx |-> (idx + 1) % Len(act)]

\* getTotalEffectiveWeight that sums the weight field in place of
\* effectiveWeight
RECURSIVE getTotalEffectiveWeight_OfWeights(_, _)
getTotalEffectiveWeight_OfWeights(eps, act) ==
    IF act = <<>>
    THEN RInt(0)
    ELSE RAdd(getTotalEffectiveWeight_OfWeights(
                  eps, SubSeq(act, 1, Len(act) - 1)),
              eps[act[Len(act)]].weight)

RECURSIVE getTotalEffectiveWeight(_, _)
getTotalEffectiveWeight(eps, act) ==
    IF act = <<>>
    THEN RInt(0)
    ELSE RAdd(getTotalEffectiveWeight(eps, SubSeq(act, 1, Len(act) - 1)),
              eps[act[Len(act)]].effectiveWeight)

\* the first loop of weightedRoundRobin: best = <<maxCurrentWeight,
\* selectedEndpoint>>, from <<0, null>>
RECURSIVE MaxCurrentWeight(_, _, _, _)
MaxCurrentWeight(eps, act, i, best) ==
    IF i > Len(act)
    THEN best
    ELSE MaxCurrentWeight(eps, act, i + 1,
             IF RLt(best[1], eps[act[i]].currentWeight)
             THEN <<eps[act[i]].currentWeight, act[i]>>
             ELSE best)

\* weightedRoundRobin that takes the candidates in turn
weightedRoundRobin_InTurn(eps, idx, act) == roundRobin(eps, idx, act)

weightedRoundRobin(eps, idx, act) ==
    LET selected == MaxCurrentWeight(eps, act, 1, <<RInt(0), NoEndpoint>>)[2]
        total == getTotalEffectiveWeight(eps, act)
        InAct(e) == \E i \in 1..Len(act) : act[i] = e
    IN IF selected = NoEndpoint
       THEN [sel |-> act[1], eps |-> eps, idx |-> idx]
       ELSE [sel |-> selected,
             eps |-> [e \in EP |->
                        IF InAct(e)
                        THEN [eps[e] EXCEPT !.currentWeight =
                                 RAdd(IF e = selected
                                      THEN RSub(@, total)
                                      ELSE @,
                                      eps[e].effectiveWeight)]
                        ELSE eps[e]],
             idx |-> idx]

\* activeEndpoints.reduce((min, current) =>
\*     current.totalRequests < min.totalRequests ? current : min)
RECURSIVE MinTotalRequests(_, _, _, _)
MinTotalRequests(eps, act, i, min) ==
    IF i > Len(act)
    THEN min
    ELSE MinTotalRequests(eps, act, i + 1,
             IF eps[act[i]].totalRequests < eps[min].totalRequests
             THEN act[i]
             ELSE min)

leastConnections(eps, idx, act) ==
    [sel |-> MinTotalRequests(eps, act, 2, act[1]),
     eps |-> eps,
     idx |-> idx]

\* the same reduce over responseTime
RECURSIVE MinResponseTime(_, _, _, _)
MinResponseTime(eps, act, i, min) ==
    IF i > Len(act)
    THEN min
    ELSE MinResponseTime(eps, act, i + 1,
             IF RLt(eps[act[i]].responseTime, eps[min].responseTime)
             THEN act[i]
             ELSE min)

responseTimeBased(eps, idx, act) ==
    [sel |-> MinResponseTime(eps, act, 2, act[1]),
     eps |-> eps,
     idx |-> idx]

\* Math.floor(Math.random() * length): every index is possible
randomSelection(eps, idx, act) ==
    {[sel |-> act[i], eps |-> eps, idx |-> idx] : i \in 1..Len(act)}

\* every result getNextEndpoint can return at time t; sel = NoEndpoint is
\* the code's null
getNextEndpoint(eps, idx, strat, t) ==
    LET recovered == checkEndpointRecovery(eps, t)
        act == activeEndpoints(recovered)
    IN IF Len(act) = 0
       THEN {[sel |-> NoEndpoint, eps |-> recovered, idx |-> idx]}
       ELSE CASE strat = "round_robin" -> {roundRobin(recovered, idx, act)}
              [] strat = "weighted_round_robin" ->
                     {weightedRoundRobin(recovered, idx, act)}
              [] strat = "least_connections" ->
                     {leastConnections(recovered, idx, act)}
              [] strat = "response_time" ->
                     {responseTimeBased(recovered, idx, act)}
              [] strat = "random" -> randomSelection(recovered, idx, act)
              [] OTHER -> {weightedRoundRobin(recovered, idx, act)}

(* ----------------------------- health check ---------------------------- *)
\* performHealthCheck after its await: the probe answered (ok) or threw, at
\* time t, having been issued at time start
\* performHealthCheck that never counts an answer, whatever totalRequests is
performHealthCheck_NeverCounting(ep, ok, start, t) ==
    IF ok
    THEN [ep EXCEPT !.responseTime = RInt(t - start), !.isHealthy = TRUE]
    ELSE [ep EXCEPT !.isHealthy = FALSE]

\* performHealthCheck without the test of totalRequests: every answer is
\* counted by markEndpointSuccess
performHealthCheck_AlwaysCounting(ep, ok, start, t) ==
    IF ok
    THEN LET measured == markEndpointSuccess(ep, t - start, t)
         IN IF ~measured.isHealthy
            THEN [measured EXCEPT !.isHealthy = TRUE]
            ELSE measured
    ELSE [ep EXCEPT !.isHealthy = FALSE]

\* performHealthCheck whose catch branch counts the failure with
\* markEndpointFailure
performHealthCheck_CountingFailure(ep, ok, start, t) ==
    IF ok
    THEN LET responseTime == t - start
             measured ==
                 IF ep.totalRequests > 0
                 THEN markEndpointSuccess(ep, responseTime, t)
                 ELSE [ep EXCEPT !.responseTime = RInt(responseTime)]
         IN IF ~measured.isHealthy
            THEN [measured EXCEPT !.isHealthy = TRUE]
            ELSE measured
    ELSE [markEndpointFailure(ep, t) EXCEPT !.isHealthy = FALSE]

performHealthCheck(ep, ok, start, t) ==
    IF ok
    THEN LET responseTime == t - start
             measured ==
                 IF ep.totalRequests > 0
                 THEN markEndpointSuccess(ep, responseTime, t)
                 ELSE [ep EXCEPT !.responseTime = RInt(responseTime)]
         IN IF ~measured.isHealthy
            THEN [measured EXCEPT !.isHealthy = TRUE]
            ELSE measured
    ELSE [ep EXCEPT !.isHealthy = FALSE]

\* the probes performHealthChecks issues first, and those it issues once
\* the first ones have settled
ProbedFirst(eps) == {e \in DOMAIN eps : eps[e].isActive}
ProbedUnused(eps) == {e \in DOMAIN eps : eps[e].totalRequests = 0}

Cycle(phase, t, pending) == [phase |-> phase, start |-> t, pending |-> pending]

\* performHealthChecks up to its first pending await, as the bag of cycles
\* it adds
performHealthChecks(eps, t) ==
    IF ProbedFirst(eps) # {}
    THEN SetToBag({Cycle(1, t, ProbedFirst(eps))})
    ELSE IF ProbedUnused(eps) # {}
         THEN SetToBag({Cycle(2, t, ProbedUnused(eps))})
         ELSE EmptyBag

\* a cycle after its probe of e has settled at time t
CycleAfterProbe(c, e, eps, t) ==
    LET left == c.pending \ {e}
    IN IF left # {}
       THEN SetToBag({Cycle(c.phase, c.start, left)})
       ELSE IF c.phase = 1 /\ ProbedUnused(eps) # {}
            THEN SetToBag({Cycle(2, t, ProbedUnused(eps))})
            ELSE EmptyBag

(* -------------------------------- state -------------------------------- *)
VARIABLES
    endpoints,       \* this.endpoints, by registry position
    currentIndex,    \* this.currentIndex
    strategy,        \* this.strategy
    lastHealthCheck, \* this.lastHealthCheck
    nextTimer,       \* when the setInterval timer of startHealthCheck is due
    now,             \* Date.now()
    handles,         \* endpoints some client handle is bound to
    calls,           \* bag of calls through handles awaiting their transport
    cycles,          \* bag of performHealthChecks runs awaiting probes
    probeDebt,       \* history: per endpoint, 0 or the instant the backoff
                     \* window of its latest deactivation ends, kept until
                     \* a probe issued at or after that instant succeeds
    ev,              \* what the last step did and what its caller received
    lastWindow,      \* history: per endpoint, the backoffDelay its latest
                     \* deactivation set (0: never deactivated)
    env,             \* the values of ENDPPOINT, ENDPPOINT1, .. in key order
    picks,           \* history: per endpoint, the selections counted
    recorded,        \* history: per endpoint, the calls of markEndpointSuccess
                     \* (ok) and of markEndpointFailure (fail) made on it
    balanced         \* createBalancedSuiClient: where its loop stands and
                     \* its retryCount

\* what only the facade's entry points and the counting of selections touch
aux == <<env, picks, recorded, balanced>>

vars ==
    <<endpoints, currentIndex, strategy, lastHealthCheck, nextTimer, now,
      handles, calls, cycles, probeDebt, ev, lastWindow, env, picks, recorded,
      balanced>>

\* what a caller can receive in place of a result.  at is the transport
\* attempt that raised the error (0: the balancer raised it); url and
\* attempts are the endpoint url and the attempt count the balancer attaches
\* to it: the code attaches neither
NoUrl == <<>>
NoError == [kind |-> "none", at |-> 0, url |-> NoUrl, attempts |-> 0]
\* throw new Error('No available RPC endpoints')
NoAvailableError ==
    [kind |-> "no_endpoint", at |-> 0, url |-> NoUrl, attempts |-> 0]
\* the error the transport of attempt k threw, passed on as it is
TransportError(k) ==
    [kind |-> "transport", at |-> k, url |-> NoUrl, attempts |-> 0]

\* createBalancedSuiClient is not running
Idle == [pc |-> "idle", retryCount |-> 0]

\* no outcome recorded yet
NoneRecorded == [ok |-> 0, fail |-> 0]

Ev(op, ep, sel, out, err) ==
    [op |-> op, ep |-> ep, sel |-> sel, out |-> out, err |-> err]

Call(ep, t, stage, retryEp, attempts) ==
    [ep |-> ep, start |-> t, stage |-> stage, retryEp |-> retryEp,
     attempts |-> attempts]

\* the constructor: loadEndpointsFromEnv, then startHealthCheck, whose first
\* performHealthChecks has issued its probes and whose timer is set
Init ==
    /\ endpoints = [e \in EP |-> NewEndpoint(Urls[e])]
    /\ currentIndex = 0
    /\ strategy = "weighted_round_robin"
    /\ lastHealthCheck = 0
    /\ nextTimer = T0 + healthCheckInterval
    /\ now = T0
    /\ handles = {}
    /\ calls = EmptyBag
    /\ cycles = performHealthChecks([e \in EP |-> NewEndpoint(Urls[e])], T0)
    /\ probeDebt = [e \in EP |-> 0]
    /\ ev = Ev("init", NoEndpoint, NoEndpoint, "", NoError)
    /\ lastWindow = [e \in EP |-> 0]
    /\ env = Urls
    /\ picks = [e \in EP |-> 0]
    /\ recorded = [e \in EP |-> NoneRecorded]
    /\ balanced = Idle

(* ------------------------------- facade -------------------------------- *)
\* createClient; counting tells whether the history variable picks records
\* the selection
createClientWith(counting) ==
    \E r \in getNextEndpoint(endpoints, currentIndex, strategy, now) :
        /\ endpoints' = r.eps
        /\ currentIndex' = r.idx
        /\ IF r.sel = NoEndpoint
           THEN /\ handles' = handles
                /\ ev' = Ev("createClient", NoEndpoint, NoEndpoint, "error",
                            NoAvailableError)
           ELSE /\ handles' = handles \cup {r.sel}
                /\ ev' = Ev("createClient", NoEndpoint, r.sel, "handle",
                            NoError)
        /\ picks' = IF counting /\ r.sel # NoEndpoint
                     THEN [picks EXCEPT ![r.sel] = @ + 1]
                     ELSE picks
        /\ UNCHANGED <<strategy, lastHealthCheck, nextTimer, now, calls,
                       cycles, probeDebt, lastWindow, env, recorded,
                       balanced>>

createClient == createClientWith(FALSE)

\* setStrategy that also starts the registry afresh
setStrategy_Resetting(s) ==
    /\ strategy' = s
    /\ endpoints' = [e \in EP |-> NewEndpoint(endpoints[e].url)]
    /\ ev' = Ev("setStrategy", NoEndpoint, NoEndpoint, s, NoError)
    /\ UNCHANGED <<currentIndex, lastHealthCheck, nextTimer, now,
                   handles, calls, cycles, probeDebt, lastWindow, aux>>

setStrategy(s) ==
    /\ strategy' = s
    /\ ev' = Ev("setStrategy", NoEndpoint, NoEndpoint, s, NoError)
    /\ UNCHANGED <<endpoints, currentIndex, lastHealthCheck, nextTimer, now,
                   handles, calls, cycles, probeDebt,
                   lastWindow, aux>>

getStatus ==
    /\ endpoints' = checkEndpointRecovery(endpoints, now)
    /\ ev' = Ev("getStatus", NoEndpoint, NoEndpoint, "", NoError)
    /\ UNCHANGED <<currentIndex, strategy, lastHealthCheck, nextTimer, now,
                   handles, calls, cycles, probeDebt,
                   lastWindow, aux>>

getMetrics ==
    /\ ev' = Ev("getMetrics", NoEndpoint, NoEndpoint,
                IF Len(activeEndpoints(endpoints)) = 0 THEN "null"
                ELSE "metrics", NoError)
    /\ UNCHANGED <<endpoints, currentIndex, strategy, lastHealthCheck,
                   nextTimer, now, handles, calls, cycles,
                   probeDebt,
                   lastWindow, aux>>

(* ------------------------- the instrumented proxy ---------------------- *)
RECURSIVE SumTotalRequests(_, _)
SumTotalRequests(eps, n) ==
    IF n = 0 THEN 0 ELSE SumTotalRequests(eps, n - 1) + eps[n].totalRequests

\* the requests a behaviour has made: those recorded and those in flight
Requests == SumTotalRequests(endpoints, NumEndpoints) + BagCardinality(calls)

\* a caller invokes method m on the handle bound to h: the proxy's get trap
\* hands out the instrumented wrapper for the methods of asyncMethods and the
\* transport's own method for every other
CallStartWithin(h, m, limit) ==
    /\ h \in handles
    /\ BagCardinality(calls) < limit
    /\ calls' = calls (+) SetToBag({Call(h, now,
                                        IF isAsyncMethod(m) THEN "first"
                                        ELSE "raw",
                                        NoEndpoint, 1)})
    /\ ev' = Ev("callStart", h, NoEndpoint, m, NoError)
    /\ UNCHANGED <<endpoints, currentIndex, strategy, lastHealthCheck,
                   nextTimer, now, handles, cycles, probeDebt,
                   lastWindow, aux>>

CallStart(h, m) == CallStartWithin(h, m, MaxInFlight)

\* CallSuccess that records the success on the first endpoint that is
\* active and healthy when the call returns, if there is one
CallSuccess_OnFirstCandidate(c) ==
    /\ c.stage = "first"
    /\ LET act == activeEndpoints(endpoints)
           served == IF Len(act) > 0 THEN act[1] ELSE c.ep
       IN endpoints' =
              [endpoints EXCEPT
                   ![served] = markEndpointSuccess(@, now - c.start, now)]
    /\ calls' = calls (-) SetToBag({c})
    /\ ev' = Ev("callOk", c.ep, NoEndpoint, "result", NoError)
    /\ recorded' = [recorded EXCEPT ![c.ep].ok = @ + 1]
    /\ UNCHANGED <<currentIndex, strategy, lastHealthCheck, nextTimer, now,
                   handles, cycles, probeDebt, lastWindow, env, picks,
                   balanced>>

\* CallSuccess whose update of the endpoint is lost when another call on
\* the same endpoint is still awaiting its transport
CallSuccess_Dropping(c) ==
    /\ c.stage = "first"
    /\ endpoints' =
           IF \E d \in BagToSet(calls (-) SetToBag({c})) : d.ep = c.ep
           THEN endpoints
           ELSE [endpoints EXCEPT
                     ![c.ep] = markEndpointSuccess(@, now - c.start, now)]
    /\ calls' = calls (-) SetToBag({c})
    /\ ev' = Ev("callOk", c.ep, NoEndpoint, "result", NoError)
    /\ recorded' = [recorded EXCEPT ![c.ep].ok = @ + 1]
    /\ UNCHANGED <<currentIndex, strategy, lastHealthCheck, nextTimer, now,
                   handles, cycles, probeDebt, lastWindow, env, picks,
                   balanced>>

\* the wrapper's try branch: the awaited transport call returned
CallSuccess(c) ==
    /\ c.stage = "first"
    /\ endpoints' = [endpoints EXCEPT
                         ![c.ep] = markEndpointSuccess(@, now - c.start, now)]
    /\ calls' = calls (-) SetToBag({c})
    /\ ev' = Ev("callOk", c.ep, NoEndpoint, "result", NoError)
    /\ recorded' = [recorded EXCEPT ![c.ep].ok = @ + 1]
    /\ UNCHANGED <<currentIndex, strategy, lastHealthCheck, nextTimer, now,
                   handles, cycles, probeDebt, lastWindow, env, picks,
                   balanced>>

\* whether the failure just counted in ep took markEndpointFailure's
\* deactivation branch
Deactivating(ep) ==
    \/ ep.failureCount >= maxFailures
    \/ ep.consecutiveFailures >= maxConsecutiveFailures

\* the retry test without its comparison of urls
RetriesOn_AnyEndpoint(next, endpoint, eps) == next # NoEndpoint

\* whether the wrapper's catch branch retries on the endpoint next
RetriesOn(next, endpoint, eps) ==
    next # NoEndpoint /\ eps[next].url # eps[endpoint].url

\* the wrapper's catch branch, up to the await of the retry or the throw
CallFailure(c) ==
    /\ c.stage = "first"
    /\ LET failed == [endpoints EXCEPT
                          ![c.ep] = markEndpointFailure(@, now)]
       IN /\ probeDebt' =
                 IF Deactivating(failed[c.ep])
                 THEN [probeDebt EXCEPT ![c.ep] =
                          failed[c.ep].lastFailureTime
                              + failed[c.ep].backoffDelay]
                 ELSE probeDebt
          /\ lastWindow' =
                 IF Deactivating(failed[c.ep])
                 THEN [lastWindow EXCEPT ![c.ep] = failed[c.ep].backoffDelay]
                 ELSE lastWindow
          /\ \E r \in getNextEndpoint(failed, currentIndex, strategy, now) :
                /\ endpoints' = r.eps
                /\ currentIndex' = r.idx
                /\ IF RetriesOn(r.sel, c.ep, r.eps)
                   THEN /\ calls' = (calls (-) SetToBag({c})) (+)
                               SetToBag({Call(c.ep, c.start, "retry", r.sel,
                                              c.attempts + 1)})
                        /\ ev' = Ev("callFail", c.ep, r.sel, "retry", NoError)
                   ELSE /\ calls' = calls (-) SetToBag({c})
                        /\ ev' = Ev("callFail", c.ep, r.sel, "error",
                                    TransportError(c.attempts))
    /\ recorded' = [recorded EXCEPT ![c.ep].fail = @ + 1]
    /\ UNCHANGED <<strategy, lastHealthCheck, nextTimer, now, handles,
                   cycles, env, picks, balanced>>

\* return await nextClient[prop](...args): the retry returned
RetrySuccess(c) ==
    /\ c.stage = "retry"
    /\ calls' = calls (-) SetToBag({c})
    /\ ev' = Ev("retryOk", c.ep, c.retryEp, "result", NoError)
    /\ UNCHANGED <<endpoints, currentIndex, strategy, lastHealthCheck,
                   nextTimer, now, handles, cycles, probeDebt,
                   lastWindow, aux>>

\* the retry threw
RetryFailure(c) ==
    /\ c.stage = "retry"
    /\ calls' = calls (-) SetToBag({c})
    /\ ev' = Ev("retryFail", c.ep, c.retryEp, "error",
                TransportError(c.attempts))
    /\ UNCHANGED <<endpoints, currentIndex, strategy, lastHealthCheck,
                   nextTimer, now, handles, cycles, probeDebt,
                   lastWindow, aux>>

\* a method the proxy does not instrument returned or threw
RawSuccess(c) ==
    /\ c.stage = "raw"
    /\ calls' = calls (-) SetToBag({c})
    /\ ev' = Ev("rawOk", c.ep, NoEndpoint, "result", NoError)
    /\ UNCHANGED <<endpoints, currentIndex, strategy, lastHealthCheck,
                   nextTimer, now, handles, cycles, probeDebt,
                   lastWindow, aux>>

RawFailure(c) ==
    /\ c.stage = "raw"
    /\ calls' = calls (-) SetToBag({c})
    /\ ev' = Ev("rawFail", c.ep, NoEndpoint, "error",
                TransportError(c.attempts))
    /\ UNCHANGED <<endpoints, currentIndex, strategy, lastHealthCheck,
                   nextTimer, now, handles, cycles, probeDebt,
                   lastWindow, aux>>

(* ---------------------------- health monitor --------------------------- *)
\* the probe of e issued by cycle c settles; when it is the last one the
\* run goes on to its second round or ends
ProbeSuccess(c, e) ==
    /\ e \in c.pending
    /\ LET eps == [endpoints EXCEPT
                       ![e] = performHealthCheck(@, TRUE, c.start, now)]
       IN /\ endpoints' = eps
          /\ cycles' = (cycles (-) SetToBag({c}))
                           (+) CycleAfterProbe(c, e, eps, now)
    /\ probeDebt' =
           IF probeDebt[e] # 0 /\ c.start >= probeDebt[e]
           THEN [probeDebt EXCEPT ![e] = 0]
           ELSE probeDebt
    /\ ev' = Ev("probeOk", e, NoEndpoint, "", NoError)
    /\ recorded' = IF endpoints[e].totalRequests > 0
                   THEN [recorded EXCEPT ![e].ok = @ + 1]
                   ELSE recorded
    /\ UNCHANGED <<currentIndex, strategy, lastHealthCheck, nextTimer, now,
                   handles, calls, lastWindow, env, picks, balanced>>

ProbeFailure(c, e) ==
    /\ e \in c.pending
    /\ LET eps == [endpoints EXCEPT
                       ![e] = performHealthCheck(@, FALSE, c.start, now)]
       IN /\ endpoints' = eps
          /\ cycles' = (cycles (-) SetToBag({c}))
                           (+) CycleAfterProbe(c, e, eps, now)
    /\ ev' = Ev("probeFail", e, NoEndpoint, "", NoError)
    /\ UNCHANGED <<currentIndex, strategy, lastHealthCheck, nextTimer, now,
                   handles, calls, probeDebt,
                   lastWindow, aux>>

\* the setInterval callback of startHealthCheck
HealthCheckTimer ==
    /\ now >= nextTimer
    /\ nextTimer' = nextTimer + healthCheckInterval
    /\ IF now - lastHealthCheck >= healthCheckInterval
       THEN /\ lastHealthCheck' = now
            /\ cycles' = cycles (+) performHealthChecks(endpoints, now)
            /\ ev' = Ev("timer", NoEndpoint, NoEndpoint, "cycle", NoError)
       ELSE /\ UNCHANGED <<lastHealthCheck, cycles>>
            /\ ev' = Ev("timer", NoEndpoint, NoEndpoint, "skip", NoError)
    /\ UNCHANGED <<endpoints, currentIndex, strategy, now, handles, calls,
                   probeDebt,
                   lastWindow, aux>>

(* -------------------------------- clock -------------------------------- *)
\* the instants at which a test of the code changes its value: the timer
\* falls due, or the backoff window of an inactive endpoint ends
Deadlines ==
    {nextTimer} \cup
    {endpoints[e].lastFailureTime + endpoints[e].backoffDelay :
         e \in {x \in EP : ~endpoints[x].isActive}}

\* time passes until one of them
Tick ==
    /\ \E d \in Deadlines :
          /\ d > now
          /\ d <= T0 + MaxIntervals * healthCheckInterval
          /\ d >= nextTimer => BagCardinality(cycles) <= MaxCycles
          /\ now' = d
    /\ ev' = Ev("tick", NoEndpoint, NoEndpoint, "", NoError)
    /\ UNCHANGED <<endpoints, currentIndex, strategy, lastHealthCheck,
                   nextTimer, handles, calls, cycles, probeDebt,
                   lastWindow, aux>>

Next ==
    \/ createClient
    \/ \E s \in Strategies : setStrategy(s)
    \/ getStatus
    \/ getMetrics
    \/ Requests < MaxRequests /\ \E h \in EP, m \in Methods : CallStart(h, m)
    \/ \E c \in BagToSet(calls) : CallSuccess(c)
    \/ \E c \in BagToSet(calls) : CallFailure(c)
    \/ \E c \in BagToSet(calls) : RetrySuccess(c)
    \/ \E c \in BagToSet(calls) : RetryFailure(c)
    \/ \E c \in BagToSet(calls) : RawSuccess(c)
    \/ \E c \in BagToSet(calls) : RawFailure(c)
    \/ \E c \in BagToSet(cycles) : \E e \in EP : ProbeSuccess(c, e)
    \/ \E c \in BagToSet(cycles) : \E e \in EP : ProbeFailure(c, e)
    \/ HealthCheckTimer
    \/ Tick

Spec == Init /\ [][Next]_vars

\* some probe of the health monitor settles
ProbeSettles ==
    \E c \in BagToSet(cycles) : \E e \in EP :
        ProbeSuccess(c, e) \/ ProbeFailure(c, e)

\* the balancer under its default strategy serving instrumented calls, with
\* what the event loop guarantees (a timer that is due fires and time
\* passes) and with probes that always settle.  Nothing makes the transport
\* of a call through a handle answer
NextLive ==
    \/ createClient
    \/ Requests < MaxRequests /\ \E h \in EP : CallStart(h, "getAllBalances")
    \/ \E c \in BagToSet(calls) : CallSuccess(c)
    \/ \E c \in BagToSet(calls) : CallFailure(c)
    \/ \E c \in BagToSet(calls) : RetrySuccess(c)
    \/ \E c \in BagToSet(calls) : RetryFailure(c)
    \/ ProbeSettles
    \/ HealthCheckTimer
    \/ Tick

SpecLive ==
    /\ Init
    /\ [][NextLive]_vars
    /\ WF_vars(HealthCheckTimer)
    /\ WF_vars(Tick)
    \* WF_vars(ProbeSettles), as the recurrence it amounts to
    /\ []<>(cycles = EmptyBag)

\* the balancer under its default strategy, serving instrumented calls only,
\* followed through enough failures to deactivate an endpoint
NextBackoff ==
    \/ createClient
    \/ getStatus
    \/ Requests < MaxBackoffRequests
           /\ \E h \in EP : CallStart(h, "getAllBalances")
    \/ \E c \in BagToSet(calls) : CallSuccess(c)
    \/ \E c \in BagToSet(calls) : CallFailure(c)
    \/ \E c \in BagToSet(calls) : RetrySuccess(c)
    \/ \E c \in BagToSet(calls) : RetryFailure(c)
    \/ \E c \in BagToSet(cycles) : \E e \in EP : ProbeSuccess(c, e)
    \/ \E c \in BagToSet(cycles) : \E e \in EP : ProbeFailure(c, e)
    \/ HealthCheckTimer
    \/ Tick

SpecBackoff == Init /\ [][NextBackoff]_vars

\* the balancer serving one caller that keeps calling through the handle it
\* was given for the first endpoint, whatever becomes of that endpoint
NextFailures ==
    \/ createClient
    \/ getStatus
    \/ Requests < MaxFailureRequests /\ CallStart(1, "getAllBalances")
    \/ \E c \in BagToSet(calls) : CallSuccess(c)
    \/ \E c \in BagToSet(calls) : CallFailure(c)
    \/ \E c \in BagToSet(calls) : RetrySuccess(c)
    \/ \E c \in BagToSet(calls) : RetryFailure(c)
    \/ \E c \in BagToSet(cycles) : \E e \in EP : ProbeSuccess(c, e)
    \/ \E c \in BagToSet(cycles) : \E e \in EP : ProbeFailure(c, e)
    \/ Tick

SpecFailures == Init /\ [][NextFailures]_vars

\* the same caller while the transport of the first endpoint is down: every
\* call through its handle throws
NextOutage ==
    \/ createClient
    \/ getStatus
    \/ Requests < MaxOutageRequests /\ CallStart(1, "getAllBalances")
    \/ \E c \in BagToSet(calls) : CallFailure(c)
    \/ \E c \in BagToSet(calls) : RetrySuccess(c)
    \/ \E c \in BagToSet(calls) : RetryFailure(c)
    \/ Tick

SpecOutage == Init /\ [][NextOutage]_vars

(* ----------------------------- construction --------------------------- *)
\* the characters of a value: one of a url, the colon, a digit, a blank
Chars == {"u", ":", "2", " "}

\* the values an ENDPPOINT variable can hold, as sequences of characters
Descriptors == UNION {[1..n -> Chars] : n \in 0..MaxDescriptorLen}

\* the values of the ENDPPOINT variables, in the order of their sorted keys
Envs == UNION {[1..n -> Descriptors] : n \in 0..MaxEnvKeys}

\* String.prototype.trim
RECURSIVE trim(_)
trim(str) ==
    IF str = <<>> THEN str
    ELSE IF Head(str) = " " THEN trim(Tail(str))
    ELSE IF str[Len(str)] = " " THEN trim(SubSeq(str, 1, Len(str) - 1))
    ELSE str

\* loadEndpointsFromEnv: one record for every value that is not blank, its
\* url the trimmed value and its weight 1
RECURSIVE loadEndpointsFromEnv(_)
loadEndpointsFromEnv(values) ==
    IF values = <<>>
    THEN <<>>
    ELSE LET before ==
                 loadEndpointsFromEnv(SubSeq(values, 1, Len(values) - 1))
             url == values[Len(values)]
         IN IF url # <<>> /\ trim(url) # <<>>
            THEN Append(before, NewEndpoint(trim(url)))
            ELSE before

\* the constructor's test that nothing was loaded, which never holds
NoValidEndpoints_Never(eps) == FALSE

\* this.endpoints.length === 0
NoValidEndpoints(eps) == Len(eps) = 0

\* throw new Error('No valid RPC endpoints found in environment variables')
ConfigurationError ==
    [kind |-> "configuration", at |-> 0, url |-> NoUrl, attempts |-> 0]

\* a process whose environment is set and that has not built a balancer
InitConfig ==
    /\ env \in Envs
    /\ endpoints = <<>>
    /\ currentIndex = 0
    /\ strategy = "weighted_round_robin"
    /\ lastHealthCheck = 0
    /\ nextTimer = 0
    /\ now = T0
    /\ handles = {}
    /\ calls = EmptyBag
    /\ cycles = EmptyBag
    /\ probeDebt = [e \in EP |-> 0]
    /\ ev = Ev("new", NoEndpoint, NoEndpoint, "", NoError)
    /\ lastWindow = [e \in EP |-> 0]
    /\ picks = [e \in EP |-> 0]
    /\ recorded = [e \in EP |-> NoneRecorded]
    /\ balanced = Idle

\* new RPCLoadBalancer(s): the registry is loaded, the health check is
\* started, and only then is an empty registry refused
constructor(s) ==
    /\ ev.op = "new"
    /\ strategy' = s
    /\ endpoints' = loadEndpointsFromEnv(env)
    /\ cycles' = performHealthChecks(loadEndpointsFromEnv(env), now)
    /\ nextTimer' = now + healthCheckInterval
    /\ ev' = IF NoValidEndpoints(loadEndpointsFromEnv(env))
             THEN Ev("constructor", NoEndpoint, NoEndpoint, "error",
                     ConfigurationError)
             ELSE Ev("constructor", NoEndpoint, NoEndpoint, "ok", NoError)
    /\ UNCHANGED <<currentIndex, lastHealthCheck, now, handles, calls,
                   probeDebt, lastWindow, env, picks, recorded, balanced>>

NextConfig == \E s \in Strategies : constructor(s)

SpecConfig == InitConfig /\ [][NextConfig]_vars

\* the configurations of several ENDPPOINT variables with short values, two
\* of which can hold the same url
SharedEnvs ==
    UNION {[1..n -> UNION {[1..k -> Chars] : k \in 0..MaxSharedLen}] :
               n \in 0..MaxSharedKeys}

InitSharedUrl ==
    /\ env \in SharedEnvs
    /\ endpoints = <<>>
    /\ currentIndex = 0
    /\ strategy = "weighted_round_robin"
    /\ lastHealthCheck = 0
    /\ nextTimer = 0
    /\ now = T0
    /\ handles = {}
    /\ calls = EmptyBag
    /\ cycles = EmptyBag
    /\ probeDebt = [e \in EP |-> 0]
    /\ ev = Ev("new", NoEndpoint, NoEndpoint, "", NoError)
    /\ lastWindow = [e \in EP |-> 0]
    /\ picks = [e \in EP |-> 0]
    /\ recorded = [e \in EP |-> NoneRecorded]
    /\ balanced = Idle

SpecSharedUrl == InitSharedUrl /\ [][NextConfig]_vars

(* ---------------------- createBalancedSuiClient ------------------------ *)
\* createBalancedSuiClient() as the callers of the repository invoke it,
\* without a strategy, on the balancer already built: one pass through the
\* try of its loop, and through the catch up to the wait when createClient
\* threw.  The function is synchronous: from its entry to its return no
\* callback of the event loop runs
createBalancedSuiClient_Try ==
    /\ balanced.pc \in {"idle", "retry"}
    /\ \E r \in getNextEndpoint(endpoints, currentIndex, strategy, now) :
          /\ currentIndex' = r.idx
          /\ IF r.sel # NoEndpoint
             THEN /\ endpoints' = r.eps
                  /\ handles' = handles \cup {r.sel}
                  /\ balanced' = Idle
                  /\ ev' = Ev("createBalancedSuiClient", NoEndpoint, r.sel,
                              "handle", NoError)
             ELSE \* catch: retryCount++, balancer.getStatus(), logging
                  /\ endpoints' = checkEndpointRecovery(r.eps, now)
                  /\ handles' = handles
                  /\ balanced' = [pc |-> "waiting",
                                  retryCount |-> balanced.retryCount + 1]
                  /\ ev' = Ev("createBalancedSuiClient", NoEndpoint,
                              NoEndpoint, "waiting", NoError)
    /\ UNCHANGED <<strategy, lastHealthCheck, nextTimer, now, calls, cycles,
                   probeDebt, lastWindow, env, picks, recorded>>

\* the busy wait: while (Date.now() - startTime < retryInterval), then the
\* test of the outer while, which maxRetries = -1 makes true
createBalancedSuiClient_Wait ==
    /\ balanced.pc = "waiting"
    /\ balanced.retryCount <= MaxBlockingRetries
    /\ now' = now + retryInterval
    /\ balanced' = [balanced EXCEPT !.pc = "retry"]
    /\ ev' = Ev("busyWait", NoEndpoint, NoEndpoint, "", NoError)
    /\ UNCHANGED <<endpoints, currentIndex, strategy, lastHealthCheck,
                   nextTimer, handles, calls, cycles, probeDebt, lastWindow,
                   env, picks, recorded>>

\* the health monitor and a caller of createBalancedSuiClient
NextBlocking ==
    \/ balanced = Idle /\ ProbeSettles
    \/ balanced = Idle /\ HealthCheckTimer
    \/ balanced = Idle /\ Tick
    \/ createBalancedSuiClient_Try
    \/ createBalancedSuiClient_Wait

SpecBlocking == Init /\ [][NextBlocking]_vars

\* the same with what the event loop and the running function guarantee: a
\* probe that has answered is handled once the call stack is empty, and
\* createBalancedSuiClient, once entered, goes on running
SpecBlockingLive ==
    /\ Init
    /\ [][NextBlocking]_vars
    /\ WF_vars(balanced = Idle /\ ProbeSettles)
    /\ WF_vars(balanced.pc = "retry" /\ createBalancedSuiClient_Try)
    /\ WF_vars(createBalancedSuiClient_Wait)

(* ----------------------- selections under fixed weights ---------------- *)
\* the registry after k selections by the default strategy, no call being
\* made in between
RECURSIVE SelectTimes(_, _)
SelectTimes(eps, k) ==
    IF k = 0
    THEN eps
    ELSE (CHOOSE r \in getNextEndpoint(SelectTimes(eps, k - 1), 0,
                                       "weighted_round_robin", T0) :
              TRUE).eps

\* a registry in which weights 3 and 1 meet: the probes of the first two
\* endpoints answered at once and those of the others failed, createClient
\* handed out the first endpoint, and the first call through that handle
\* succeeded (weight = 1 + 2 * 1/1 = 3) while the second endpoint, never
\* used, keeps weight 1; then k more selections
WeightsThreeAndOne(k) ==
    LET fresh == [e \in EP |->
                    performHealthCheck(NewEndpoint(Urls[e]), e <= 2, T0, T0)]
        first == CHOOSE r \in getNextEndpoint(fresh, 0,
                                              "weighted_round_robin", T0) :
                     TRUE
        served == [first.eps EXCEPT
                       ![first.sel] = markEndpointSuccess(@, 0, T0)]
    IN SelectTimes(served, k)

InitWRR ==
    /\ \E k \in 0..MaxWarmUp : endpoints = WeightsThreeAndOne(k)
    /\ currentIndex = 0
    /\ strategy = "weighted_round_robin"
    /\ lastHealthCheck = 0
    /\ nextTimer = T0 + healthCheckInterval
    /\ now = T0
    /\ handles = {1}
    /\ calls = EmptyBag
    /\ cycles = EmptyBag
    /\ probeDebt = [e \in EP |-> 0]
    /\ ev = Ev("init", NoEndpoint, NoEndpoint, "", NoError)
    /\ lastWindow = [e \in EP |-> 0]
    /\ env = Urls
    /\ picks = [e \in EP |-> 0]
    /\ recorded = [e \in EP |-> NoneRecorded]
    /\ balanced = Idle

RECURSIVE SumPicks(_, _)
SumPicks(p, n) == IF n = 0 THEN 0 ELSE SumPicks(p, n - 1) + p[n]

\* the selections counted so far
Selections == SumPicks(picks, NumEndpoints)

\* createClient called again and again, nothing else happening
NextWRR == Selections < MaxSelections /\ createClientWith(TRUE)

SpecWRR == InitWRR /\ [][NextWRR]_vars

(* ----------------------- selections in turn ---------------------------- *)
\* new RPCLoadBalancer('round_robin'), as getRPCLoadBalancer('round_robin')
\* builds it
InitRoundRobin ==
    /\ endpoints = [e \in EP |-> NewEndpoint(Urls[e])]
    /\ currentIndex = 0
    /\ strategy = "round_robin"
    /\ lastHealthCheck = 0
    /\ nextTimer = T0 + healthCheckInterval
    /\ now = T0
    /\ handles = {}
    /\ calls = EmptyBag
    /\ cycles = performHealthChecks([e \in EP |-> NewEndpoint(Urls[e])], T0)
    /\ probeDebt = [e \in EP |-> 0]
    /\ ev = Ev("init", NoEndpoint, NoEndpoint, "", NoError)
    /\ lastWindow = [e \in EP |-> 0]
    /\ env = Urls
    /\ picks = [e \in EP |-> 0]
    /\ recorded = [e \in EP |-> NoneRecorded]
    /\ balanced = Idle

\* createClient called again and again while the health monitor changes
\* which endpoints are candidates
NextRoundRobin ==
    \/ Selections < MaxRoundRobinSelections /\ createClientWith(TRUE)
    \/ \E c \in BagToSet(cycles) : \E e \in EP : ProbeSuccess(c, e)
    \/ \E c \in BagToSet(cycles) : \E e \in EP : ProbeFailure(c, e)
    \/ HealthCheckTimer
    \/ Tick

SpecRoundRobin == InitRoundRobin /\ [][NextRoundRobin]_vars

(* --------------------------- concurrent callers ------------------------ *)
\* callers that do not wait for one call to settle before they start the
\* next: up to MaxConcurrent calls are awaiting their transport at once,
\* together with the probes of the constructor's health check, and they
\* settle in any order
NextConcurrent ==
    \/ createClient
    \/ Requests < MaxConcurrentRequests
           /\ \E h \in EP : CallStartWithin(h, "getAllBalances", MaxConcurrent)
    \/ \E c \in BagToSet(calls) : CallSuccess(c)
    \/ \E c \in BagToSet(calls) : CallFailure(c)
    \/ \E c \in BagToSet(calls) : RetrySuccess(c)
    \/ \E c \in BagToSet(calls) : RetryFailure(c)
    \/ \E c \in BagToSet(cycles) : \E e \in EP : ProbeSuccess(c, e)
    \/ \E c \in BagToSet(cycles) : \E e \in EP : ProbeFailure(c, e)
    \/ Tick

SpecConcurrent == Init /\ [][NextConcurrent]_vars

(* ------------------------------- claims -------------------------------- *)
IsEligible(e) == endpoints[e].isActive /\ endpoints[e].isHealthy

C2_CreateClientFailsIffNoneEligible ==
    ev.op = "createClient" =>
        /\ \A e \in EP :
               (~endpoints[e].isActive /\ endpoints[e].lastFailureTime # 0)
                   => now - endpoints[e].lastFailureTime
                          < endpoints[e].backoffDelay
        /\ ev.out \in {"error", "handle"}
        /\ ev.out = "error" <=> (\A e \in EP : ~IsEligible(e))
        /\ ev.out = "error" => ev.err = NoAvailableError /\ ev.sel = NoEndpoint
        /\ ev.out = "handle" =>
               /\ ev.err = NoError
               /\ ev.sel \in EP
               /\ ev.sel \in handles

\* createClient failed while an endpoint was inside its backoff window
C2_Witness ==
    /\ ev.op = "createClient"
    /\ ev.out = "error"
    /\ \E e \in EP : ~endpoints[e].isActive

\* C3: a call makes at most two transport attempts; the second is made only
\* by the step in which the first one failed, and only on an endpoint whose
\* url differs from that of the first; when the second has returned or
\* thrown the call is over
C3_AtMostOneFailoverRetry ==
    [][/\ \A c \in BagToSet(calls') :
              /\ c.attempts <= 2
              /\ c.attempts = 2 =>
                     /\ c.stage = "retry"
                     /\ c.retryEp \in EP
                     /\ endpoints'[c.retryEp].url # endpoints'[c.ep].url
              /\ (c.attempts = 2 /\ CopiesIn(c, calls') > CopiesIn(c, calls))
                     => /\ ev'.op = "callFail"
                        /\ \E b \in BagToSet(calls) :
                               /\ b.stage = "first"
                               /\ b.attempts = 1
                               /\ b.ep = c.ep
                               /\ CopiesIn(b, calls') < CopiesIn(b, calls)
       /\ ev'.op \in {"retryOk", "retryFail"}
              => BagCardinality(calls') = BagCardinality(calls) - 1
      ]_vars

\* a call is awaiting its retry
C3_Witness == \E c \in BagToSet(calls) : c.stage = "retry"

\* the calls awaiting a retry
Retrying(bag) == {c \in BagToSet(bag) : c.stage = "retry"}

\* C4: when a call fails and the re-selection returns the endpoint of the
\* call or none, no retry is made and the caller receives the error the
\* failed attempt threw
C4_NoRetryOnSameOrNoEndpoint ==
    [][(ev'.op = "callFail" /\ ev'.sel \in {NoEndpoint, ev'.ep})
           => /\ ev'.out = "error"
              /\ ev'.err = TransportError(1)
              /\ BagCardinality(calls') = BagCardinality(calls) - 1
              /\ \A c \in Retrying(calls') :
                     CopiesIn(c, calls') = CopiesIn(c, calls)
      ]_vars

\* a failover re-selected the endpoint that had just failed
C4_Witness ==
    /\ ev.op = "callFail"
    /\ ev.sel = ev.ep
    /\ ev.out = "error"

\* C5: when the call failed on X and its retry on Y fails too, the error the
\* caller receives carries the endpoint url and the attempt count, and is not
\* the no-available-endpoint error
C5_RetryFailureCarriesUrlAndAttempts ==
    ev.op = "retryFail" =>
        /\ ev.err.kind \notin {"none", "no_endpoint"}
        /\ ev.err.url \in {endpoints[e].url : e \in EP}
        /\ ev.err.attempts = 2

\* C6: every transport attempt of a call through the instrumented wrapper,
\* the first attempt and the failover retry alike, is followed by one
\* onSuccess or onFailure on the endpoint that served it, each of which adds
\* one to that endpoint's totalRequests
C6_EveryAttemptIsRecorded ==
    [][/\ ev'.op \in {"callOk", "callFail"}
              => endpoints'[ev'.ep].totalRequests
                     = endpoints[ev'.ep].totalRequests + 1
       /\ ev'.op \in {"retryOk", "retryFail"}
              => endpoints'[ev'.sel].totalRequests
                     = endpoints[ev'.sel].totalRequests + 1
      ]_vars

\* C7: the third of three failed calls on an endpoint that has recorded
\* nothing else since it was registered leaves it inactive with
\* backoffDelay = 2000 and consecutiveFailures = 3
C7_ThreeFailuresDeactivate ==
    (/\ ev.op = "callFail"
     /\ endpoints[ev.ep].totalRequests = 3
     /\ endpoints[ev.ep].successCount = 0)
        => /\ ~endpoints[ev.ep].isActive
           /\ endpoints[ev.ep].backoffDelay = 2000
           /\ endpoints[ev.ep].consecutiveFailures = 3

\* the third failure in a row of an endpoint without a success has been
\* recorded
C7_Witness ==
    /\ ev.op = "callFail"
    /\ endpoints[ev.ep].totalRequests = 3
    /\ endpoints[ev.ep].successCount = 0

\* C8: a deactivated endpoint is never active again while the time since its
\* lastFailureTime is less than its backoffDelay, whether it was inactive
\* before the step or the step itself deactivated it
C8_NoReactivationInsideWindow ==
    [][\A e \in EP :
           endpoints'[e].isActive =>
               \* inactive before the step: its window had ended
               /\ ~endpoints[e].isActive
                      => now - endpoints[e].lastFailureTime
                             >= endpoints[e].backoffDelay
               \* deactivated by the step itself: the window that the
               \* deactivation opened has ended
               /\ (probeDebt'[e] # probeDebt[e] /\ probeDebt'[e] # 0)
                      => now' >= probeDebt'[e]
      ]_vars

\* an endpoint that three failures deactivated is active again
C8_Witness ==
    \E e \in EP :
        /\ endpoints[e].isActive
        /\ endpoints[e].totalRequests >= 3
        /\ endpoints[e].successCount = 0
        /\ endpoints[e].failureCount = 0

\* C9: a health check cycle probes every inactive endpoint whose backoff
\* window has ended
C9_CycleProbesInactiveEndpoints ==
    [][(ev'.op = "timer" /\ ev'.out = "cycle")
           => \A e \in EP :
                  (/\ ~endpoints[e].isActive
                   /\ now - endpoints[e].lastFailureTime
                          >= endpoints[e].backoffDelay)
                      => \E c \in BagToSet(cycles') :
                             c.start = now /\ e \in c.pending
      ]_vars

\* C10: once an endpoint is deactivated no selection returns it until a
\* probe of it issued after the end of its backoff window has succeeded
C10_NoSelectionBeforeProbeAfterWindow ==
    (ev.op \in {"createClient", "callFail"} /\ ev.sel # NoEndpoint)
        => probeDebt[ev.sel] = 0

\* C11: in every reachable state the effectiveWeight of every endpoint lies
\* between minEffectiveWeight (0.1) and the ceiling of the clamp (5.0)
C11_EffectiveWeightInRange ==
    \A e \in EP :
        /\ ~RLt(endpoints[e].effectiveWeight, minEffectiveWeight)
        /\ ~RLt(weightCeiling, endpoints[e].effectiveWeight)

\* the penalty of a failure would have taken an effectiveWeight below the
\* minimum: four failures in a row, and the weight is the minimum
C11_Witness ==
    \E e \in EP :
        /\ endpoints[e].totalRequests = 4
        /\ endpoints[e].successCount = 0
        /\ endpoints[e].effectiveWeight = minEffectiveWeight

\* C12: in every reachable state the backoffDelay of every endpoint lies
\* between baseBackoffDelay (1000) and maxBackoffDelay (300000)
C12_BackoffDelayInRange ==
    \A e \in EP :
        /\ baseBackoffDelay <= endpoints[e].backoffDelay
        /\ endpoints[e].backoffDelay <= maxBackoffDelay

\* doubling would have taken a backoffDelay beyond the maximum, and it is the
\* maximum
C12_Witness ==
    \E e \in EP :
        /\ endpoints[e].backoffDelay = maxBackoffDelay
        /\ ~endpoints[e].isActive

\* C13: when an endpoint that recovered from a deactivation is deactivated
\* again, its backoffDelay is twice the one its previous deactivation set,
\* or 300000 when that is less
C13_BackoffGrowsAcrossDeactivations ==
    [][\A e \in EP :
           (/\ endpoints[e].isActive
            /\ ~endpoints'[e].isActive
            /\ lastWindow[e] # 0)
               => endpoints'[e].backoffDelay =
                      Min(lastWindow[e] * backoffMultiplier, maxBackoffDelay)
      ]_vars

\* C14: setStrategy, with any of the five names and whatever the strategy
\* was before, changes the strategy and nothing of the endpoint records
C14_SetStrategyKeepsEndpoints ==
    [][ev'.op = "setStrategy"
           => /\ strategy' = ev'.out
              /\ endpoints' = endpoints
              /\ currentIndex' = currentIndex
      ]_vars

\* setStrategy('round_robin') has just run on a registry that has recorded a
\* request
C14_Witness ==
    /\ ev.op = "setStrategy"
    /\ ev.out = "round_robin"
    /\ strategy = "round_robin"
    /\ \E e \in EP : endpoints[e].totalRequests > 0

\* C15: under weighted_round_robin, with endpoints of weights 3 and 1 that
\* stay eligible and keep their weights, 400 selections in a row choose the
\* first between 290 and 310 times and the second between 90 and 110 times
C15_WeightedShares ==
    (/\ Selections = 400
     /\ endpoints[1].weight = RInt(3)
     /\ endpoints[2].weight = RInt(1))
        => /\ picks[1] >= 290 /\ picks[1] <= 310
           /\ picks[2] >= 90 /\ picks[2] <= 110

\* 400 selections have been counted on such a registry
C15_Witness ==
    /\ Selections = 400
    /\ strategy = "weighted_round_robin"
    /\ endpoints[1].weight = RInt(3) /\ endpoints[1].effectiveWeight = RInt(3)
    /\ endpoints[2].weight = RInt(1) /\ endpoints[2].effectiveWeight = RInt(1)
    /\ IsEligible(1) /\ IsEligible(2)
    /\ picks[1] = 300

\* a value with nothing but blanks in it
IsBlank(d) == \A i \in 1..Len(d) : d[i] = " "

\* C16: constructing the balancer from a configuration none of whose values
\* names an endpoint fails with the configuration error
C16_EmptyConfigurationFails ==
    (ev.op = "constructor" /\ \A i \in 1..Len(env) : IsBlank(env[i]))
        => ev.out = "error" /\ ev.err = ConfigurationError

\* the constructor has run on a configuration whose values are blank without
\* being empty
C16_Witness ==
    /\ ev.op = "constructor"
    /\ Len(env) >= 1
    /\ \A i \in 1..Len(env) : env[i] # <<>> /\ IsBlank(env[i])
    /\ endpoints = <<>>

\* the number a sequence of digits writes
DigitChars == <<"0", "1", "2", "3", "4", "5", "6", "7", "8", "9">>
IsDigits(d) ==
    d # <<>> /\ \A i \in 1..Len(d) : \E n \in 1..10 : DigitChars[n] = d[i]
RECURSIVE NumberOf(_)
NumberOf(d) ==
    IF d = <<>> THEN 0
    ELSE 10 * NumberOf(SubSeq(d, 1, Len(d) - 1))
             + ((CHOOSE n \in 1..10 : DigitChars[n] = d[Len(d)]) - 1)

\* where the weight of a descriptor url:weight starts (0: a bare url)
WeightAt(d) ==
    LET at == {i \in 2..Len(d) :
                  /\ d[i - 1] = ":"
                  /\ i > 2
                  /\ IsDigits(SubSeq(d, i, Len(d)))
                  /\ NumberOf(SubSeq(d, i, Len(d))) >= 1}
    IN IF at = {} THEN 0 ELSE CHOOSE i \in at : TRUE

\* the values of a configuration that name an endpoint, trimmed, in order
RECURSIVE Named(_)
Named(values) ==
    IF values = <<>> THEN <<>>
    ELSE LET before == Named(SubSeq(values, 1, Len(values) - 1))
             d == trim(values[Len(values)])
         IN IF d = <<>> THEN before ELSE Append(before, d)

\* C17: a descriptor url:weight registers an endpoint with that url and that
\* weight, a bare url one with the whole url and weight 1
C17_DescriptorSetsUrlAndWeight ==
    (ev.op = "constructor" /\ ev.out = "ok")
        => /\ Len(endpoints) = Len(Named(env))
           /\ \A i \in 1..Len(endpoints) :
                  LET d == Named(env)[i]
                      w == WeightAt(d)
                  IN IF w = 0
                     THEN /\ endpoints[i].url = d
                          /\ endpoints[i].weight = RInt(1)
                     ELSE /\ endpoints[i].url = SubSeq(d, 1, w - 2)
                          /\ endpoints[i].weight =
                                 RInt(NumberOf(SubSeq(d, w, Len(d))))

\* C18: when createBalancedSuiClient finds no endpoint active and healthy it
\* returns the no-available-endpoint error to its caller, and does not go on
\* to another attempt of its own
C18_NoAvailableIsReturned ==
    (ev.op = "createBalancedSuiClient" /\ ev.sel = NoEndpoint)
        => balanced = Idle /\ ev.err = NoAvailableError

\* C19: every call made through a handle eventually completes, a transport
\* that never answers being ended by a timeout.  Stated of the calls made at
\* the instant the balancer starts, which the clock leaves a whole
\* healthCheckInterval behind, six times maxResponseTime
C19_EveryCallCompletes ==
    (\E c \in BagToSet(calls) : c.start = T0) ~> (calls = EmptyBag)

\* C20: getStatus and getMetrics change no field of any endpoint and nothing
\* of the selection state
C20_ObservationsArePure ==
    [][ev'.op \in {"getStatus", "getMetrics"}
           => /\ endpoints' = endpoints
              /\ currentIndex' = currentIndex
              /\ strategy' = strategy
      ]_vars

\* C21: a selection of createClient under weighted_round_robin returns a
\* candidate whose currentWeight is the largest among the candidates, takes
\* the sum of the candidates' effectiveWeight off the currentWeight of the
\* selected one and adds to every candidate's currentWeight its own
\* effectiveWeight
C21_WeightedSelectionTakesMaximum ==
    [][(/\ ev'.op = "createClient"
        /\ ev'.sel # NoEndpoint
        /\ strategy = "weighted_round_robin")
           => LET before == checkEndpointRecovery(endpoints, now)
                  act == activeEndpoints(before)
                  total == getTotalEffectiveWeight(before, act)
              IN \A i \in 1..Len(act) :
                     /\ ~RLt(before[ev'.sel].currentWeight,
                             before[act[i]].currentWeight)
                     /\ endpoints'[act[i]].currentWeight =
                            RAdd(IF act[i] = ev'.sel
                                 THEN RSub(before[act[i]].currentWeight, total)
                                 ELSE before[act[i]].currentWeight,
                                 before[act[i]].effectiveWeight)
      ]_vars

\* C22: a failure recorded on an endpoint sets isActive = false, isHealthy =
\* false and backoffDelay = min(2 * backoffDelay, 300000) exactly when, the
\* failure counted, failureCount >= 3 or consecutiveFailures >= 5; otherwise
\* it leaves the three as they were
C22_DeactivatesExactlyAtThreshold ==
    [][ev'.op = "callFail"
           => LET old == endpoints[ev'.ep]
                  new == endpoints'[ev'.ep]
              IN IF \/ old.failureCount + 1 >= 3
                    \/ old.consecutiveFailures + 1 >= 5
                 THEN /\ ~new.isActive
                      /\ ~new.isHealthy
                      /\ new.backoffDelay =
                             Min(2 * old.backoffDelay, 300000)
                 ELSE /\ new.isActive = old.isActive
                      /\ new.isHealthy = old.isHealthy
                      /\ new.backoffDelay = old.backoffDelay
      ]_vars

\* a fourth failure has been recorded on an endpoint that the third had
\* deactivated: its delay has doubled again
C22_Witness ==
    /\ ev.op = "callFail"
    /\ ~endpoints[ev.ep].isActive
    /\ endpoints[ev.ep].failureCount = 4
    /\ endpoints[ev.ep].backoffDelay = 4000

\* the steps that record a success on endpoint e: a call through a handle
\* that returned, or a probe that answered for an endpoint already used
RecordsSuccess(e) ==
    /\ ev'.ep = e
    /\ \/ ev'.op = "callOk"
       \/ ev'.op = "probeOk" /\ endpoints[e].totalRequests > 0

\* C23: a success recorded on an endpoint takes 1 off its failureCount when
\* failureCount > 0 and the run of successes it extends is at least 3 long,
\* and otherwise leaves failureCount as it was; failureCount is never
\* negative
C23_SuccessForgivesOneFailure ==
    [][\A e \in EP :
           /\ endpoints'[e].failureCount >= 0
           /\ RecordsSuccess(e)
                  => endpoints'[e].failureCount =
                         IF /\ endpoints[e].failureCount > 0
                            /\ endpoints[e].consecutiveSuccesses + 1 >= 3
                         THEN endpoints[e].failureCount - 1
                         ELSE endpoints[e].failureCount
      ]_vars

\* one failure and then three successes in a row have been recorded on an
\* endpoint, and its failureCount is 0 again
C23_Witness ==
    \E e \in EP :
        /\ recorded[e] = [ok |-> 3, fail |-> 1]
        /\ endpoints[e].consecutiveSuccesses = 3
        /\ endpoints[e].failureCount = 0
        /\ endpoints[e].isActive

\* C24: no endpoint ever has consecutiveFailures and consecutiveSuccesses
\* both above 0
C24_RunsAreExclusive ==
    \A e \in EP :
        ~(endpoints[e].consecutiveFailures > 0
              /\ endpoints[e].consecutiveSuccesses > 0)

\* a success has been recorded after a failure on the same endpoint
C24_Witness ==
    /\ ev.op = "callOk"
    /\ recorded[ev.ep].fail > 0
    /\ endpoints[ev.ep].failureCount > 0
    /\ endpoints[ev.ep].consecutiveSuccesses > 0

\* C25: the totalRequests of every endpoint is its successCount plus the
\* number of failures recorded on it
C25_TotalIsSuccessesPlusFailures ==
    \A e \in EP :
        /\ endpoints[e].totalRequests =
               endpoints[e].successCount + recorded[e].fail
        /\ endpoints[e].successCount <= endpoints[e].totalRequests

\* successes and failures have both been recorded on an endpoint, and a
\* probe has answered for another that no call has used
C25_Witness ==
    \E e, u \in EP :
        /\ recorded[e].fail > 0 /\ endpoints[e].successCount > 0
        /\ ev.op = "probeOk" /\ ev.ep = u
        /\ endpoints[u].totalRequests = 0

\* C26: a probe of an endpoint whose totalRequests is 0 when the probe
\* settles, answered or failed, changes nothing of the registry but the
\* isHealthy and the responseTime of that endpoint: its totalRequests,
\* successCount, failureCount, consecutive counters, weight and
\* effectiveWeight stay as they were, and so does every other endpoint
C26_ProbeOfUnusedEndpointCountsNothing ==
    [][(/\ ev'.op \in {"probeOk", "probeFail"}
        /\ endpoints[ev'.ep].totalRequests = 0)
           => /\ endpoints' =
                     [endpoints EXCEPT
                          ![ev'.ep].isHealthy = endpoints'[ev'.ep].isHealthy,
                          ![ev'.ep].responseTime =
                              endpoints'[ev'.ep].responseTime]
              /\ endpoints'[ev'.ep].isHealthy = (ev'.op = "probeOk")
      ]_vars

\* a probe of an endpoint that no call has used has answered after some
\* time, and its responseTime is set
C26_Witness ==
    /\ ev.op = "probeOk"
    /\ endpoints[ev.ep].totalRequests = 0
    /\ endpoints[ev.ep].responseTime # RInt(0)

\* C27: a probe that fails changes nothing of the registry but the isHealthy
\* of its endpoint, which it sets to FALSE, and hands no error to any caller:
\* no call in flight is settled by it
C27_FailedProbeOnlyClearsHealth ==
    [][ev'.op = "probeFail"
           => /\ endpoints' = [endpoints EXCEPT ![ev'.ep].isHealthy = FALSE]
              /\ ev'.err = NoError
              /\ calls' = calls
      ]_vars

\* a probe has failed for an endpoint that calls have used and that is
\* still active
C27_Witness ==
    /\ ev.op = "probeFail"
    /\ endpoints[ev.ep].totalRequests > 0
    /\ endpoints[ev.ep].isActive
    /\ ~endpoints[ev.ep].isHealthy

\* C28: a call through a handle that returns on an endpoint that is active
\* and not healthy sets the isHealthy of that endpoint
C28_SuccessRestoresHealth ==
    [][(/\ ev'.op = "callOk"
        /\ endpoints[ev'.ep].isActive
        /\ ~endpoints[ev'.ep].isHealthy)
           => endpoints'[ev'.ep].isHealthy
      ]_vars

\* C29: in every state an endpoint that is not active is not healthy
C29_InactiveIsUnhealthy ==
    \A e \in EP : ~endpoints[e].isActive => ~endpoints[e].isHealthy

\* C30: with several calls and probes awaiting at once and settling in any
\* order, no update of a counter is lost: in every state, and so once all
\* have settled, the totalRequests of each endpoint is the number of outcomes
\* recorded on it and its successCount the number of successes recorded
C30_NoCounterUpdateIsLost ==
    \A e \in EP :
        /\ endpoints[e].totalRequests = recorded[e].ok + recorded[e].fail
        /\ endpoints[e].successCount = recorded[e].ok

\* a call has returned on an endpoint while a second call on the same
\* endpoint and a probe of it are still awaiting, after a failure recorded
\* on it
C30_Witness ==
    /\ ev.op = "callOk"
    /\ recorded[ev.ep].fail >= 1
    /\ \E d \in BagToSet(calls) : d.ep = ev.ep /\ d.stage = "first"
    /\ \E c \in BagToSet(cycles) : ev.ep \in c.pending

\* C31: while a caller waits inside createBalancedSuiClient with probes in
\* flight, the answers of the probes are still handled: some probe settles
C31_ProbesSettleWhileCallerWaits ==
    (balanced.pc = "waiting" /\ cycles # EmptyBag)
        ~> (ev.op \in {"probeOk", "probeFail"})

\* C32: after the constructor has loaded the registry no two of its records
\* have the same url
C32_UrlsAreUnique ==
    ev.op = "constructor"
        => \A i, j \in 1..Len(endpoints) :
               i # j => endpoints[i].url # endpoints[j].url

\* the position of endpoint e in the candidate list act
PositionIn(act, e) == CHOOSE i \in 1..Len(act) : act[i] = e

\* C33: under round_robin every selection returns a member of the candidate
\* list, and a selection that follows another under the same candidate list
\* returns the candidate next in registry order, the first after the last:
\* n selections in a row return each of n candidates once
C33_RoundRobinCycles ==
    [][(/\ ev'.op = "createClient" /\ ev'.sel # NoEndpoint
        /\ strategy = "round_robin")
           => LET act == activeEndpoints(endpoints')
              IN /\ \E i \in 1..Len(act) : act[i] = ev'.sel
                 /\ (/\ ev.op = "createClient" /\ ev.sel # NoEndpoint
                     /\ activeEndpoints(endpoints) = act)
                        => PositionIn(act, ev'.sel) =
                               (PositionIn(act, ev.sel) % Len(act)) + 1
      ]_vars

\* with every endpoint a candidate, a selection has returned the last one
\* and taken the index back to the first
C33_Witness ==
    /\ strategy = "round_robin"
    /\ ev.op = "createClient"
    /\ Len(activeEndpoints(endpoints)) = NumEndpoints
    /\ ev.sel = NumEndpoints
    /\ currentIndex = 0
    /\ \A e \in EP : picks[e] >= 1

\* C34: after a success is recorded on an endpoint its weight and its
\* effectiveWeight are both 1 + 2 * successCount / totalRequests clamped to
\* [0.1, 5.0], with the counters as the success leaves them, and lie between
\* 1 and 3
C34_SuccessRecomputesWeight ==
    [][\A e \in EP :
           RecordsSuccess(e)
               => LET ep == endpoints'[e]
                      rate == Norm(ep.totalRequests + 2 * ep.successCount,
                                   ep.totalRequests)
                      clamped == RMax(<<1, 10>>, RMin(<<5, 1>>, rate))
                  IN /\ ep.weight = clamped
                     /\ ep.effectiveWeight = clamped
                     /\ ~RLt(ep.effectiveWeight, <<1, 1>>)
                     /\ ~RLt(<<3, 1>>, ep.effectiveWeight)
      ]_vars

\* a call has returned on an endpoint after two failures had taken its
\* effectiveWeight down to 1/4: one success in three requests, weight 5/3
C34_Witness ==
    /\ ev.op = "callOk"
    /\ recorded[ev.ep] = [ok |-> 1, fail |-> 2]
    /\ endpoints[ev.ep].weight = <<5, 3>>
    /\ endpoints[ev.ep].effectiveWeight = <<5, 3>>

\* C35: in every state the failureCount of an endpoint is at least its
\* consecutiveFailures, so that the test consecutiveFailures >= 5 holds only
\* where failureCount >= 3 holds already; and a failure of a call that
\* leaves failureCount at 3 or more leaves the endpoint inactive, whether or
\* not the failures counted came in a row
C35_FailureCountCoversFailureRun ==
    \A e \in EP :
        /\ endpoints[e].failureCount >= endpoints[e].consecutiveFailures
        /\ (ev.op = "callFail" /\ ev.ep = e
                /\ endpoints[e].failureCount >= 3)
               => ~endpoints[e].isActive

\* two failures, a success and a third failure have been recorded on an
\* endpoint: the third failure, the first of its run, has deactivated it
C35_Witness ==
    /\ ev.op = "callFail"
    /\ recorded[ev.ep] = [ok |-> 1, fail |-> 3]
    /\ endpoints[ev.ep].failureCount = 3
    /\ endpoints[ev.ep].consecutiveFailures = 1
    /\ ~endpoints[ev.ep].isActive

\* C36: in every state an endpoint that is active has a failureCount of at
\* most 2 and a backoffDelay of baseBackoffDelay (1000)
C36_ActiveEndpointIsReset ==
    \A e \in EP :
        endpoints[e].isActive
            => /\ endpoints[e].failureCount <= 2
               /\ endpoints[e].backoffDelay = 1000

\* an endpoint whose deactivation had taken its backoffDelay to 2000 is
\* active again, and a failure has been recorded on it since
C36_Witness ==
    \E e \in EP :
        /\ lastWindow[e] = 2000
        /\ recorded[e].fail = 4
        /\ endpoints[e].isActive
        /\ endpoints[e].failureCount = 1

\* the sum of currentWeight over the candidate list act
RECURSIVE SumCurrentWeight(_, _)
SumCurrentWeight(eps, act) ==
    IF act = <<>>
    THEN RInt(0)
    ELSE RAdd(SumCurrentWeight(eps, SubSeq(act, 1, Len(act) - 1)),
              eps[act[Len(act)]].currentWeight)

\* C37: a selection of createClient under weighted_round_robin leaves the
\* sum of currentWeight over the candidates as it was when the candidates
\* were listed
C37_SelectionKeepsSumOfCurrentWeight ==
    [][(/\ ev'.op = "createClient" /\ ev'.sel # NoEndpoint
        /\ strategy = "weighted_round_robin")
           => LET before == checkEndpointRecovery(endpoints, now)
                  act == activeEndpoints(before)
              IN SumCurrentWeight(endpoints', act) =
                     SumCurrentWeight(before, act)
      ]_vars

\* a selection has been made between two candidates whose effectiveWeight
\* differ, one of them lowered by failures, and has moved their currentWeight
C37_Witness ==
    /\ ev.op = "createClient"
    /\ strategy = "weighted_round_robin"
    /\ IsEligible(1) /\ IsEligible(2)
    /\ ev.sel # NoEndpoint
    /\ RLt(endpoints[ev.sel].effectiveWeight, RInt(1))
    /\ RLt(endpoints[ev.sel].currentWeight, RInt(0))

C39_ProbeOfUsedEndpointCounts ==
    [][(ev'.op = "probeOk" /\ endpoints[ev'.ep].totalRequests > 0)
           => LET old == endpoints[ev'.ep]
                  new == endpoints'[ev'.ep]
                  rate == Norm(new.totalRequests + 2 * new.successCount,
                               new.totalRequests)
              IN /\ new.totalRequests = old.totalRequests + 1
                 /\ new.successCount = old.successCount + 1
                 /\ new.consecutiveSuccesses = old.consecutiveSuccesses + 1
                 /\ new.consecutiveFailures = 0
                 /\ new.weight = rate /\ new.effectiveWeight = rate
                 /\ new.failureCount =
                        IF old.failureCount > 0
                               /\ new.consecutiveSuccesses >= 3
                        THEN old.failureCount - 1
                        ELSE old.failureCount
      ]_vars

\* a probe has answered for an endpoint with one failure and two successes
\* recorded by calls: it is the third success of the run, and failureCount
\* is 0 again
C39_Witness ==
    /\ ev.op = "probeOk"
    /\ recorded[ev.ep] = [ok |-> 3, fail |-> 1]
    /\ endpoints[ev.ep].totalRequests = 4
    /\ endpoints[ev.ep].consecutiveSuccesses = 3
    /\ endpoints[ev.ep].failureCount = 0

====
